---------------------------- MODULE Spec2Model ----------------------------
(***************************************************************************)
(* Model of src/app.py: the construction-schedule prioritiser.             *)
(*                                                                         *)
(* The program is a Flask application with one route, index().  Every      *)
(* request reloads the activity file (load_activities), reads the session  *)
(* (completion ledger and current project day) and runs                    *)
(*   get_ready_activities -> get_critical_path -> find_best_sequence       *)
(* on freshly built activity dictionaries.  The session is the only state  *)
(* that outlives a request.                                                *)
(*                                                                         *)
(* An activity dictionary is a function from its keys to their values, so  *)
(* that a key may be absent: dict.get(key, default) is get(d, key,         *)
(* default) and d[key] = value is put(d, key, value).  The dictionaries    *)
(* are shared by reference between the `activities` list and the           *)
(* `ready_activities` list; the model keeps one store of dictionaries (a   *)
(* sequence in file order) and refers to the ready ones by id.             *)
(***************************************************************************)
EXTENDS Integers, Sequences, FiniteSets, TLC

(***************************************************************************)
(* Bounds of the model.                                                    *)
(***************************************************************************)
MaxDay == 3          \* project days a request may select: 1..MaxDay
MaxStartDay == 2     \* planned start days in the activity file: 1..MaxStartDay
MaxDuration == 2     \* durations in the activity file: 1..MaxDuration

(***************************************************************************)
(* The activity file.  Ids are listed in file order.  "A1" and "A2" occur  *)
(* in the literal critical_path_sequence of the source, "A41" does not.    *)
(***************************************************************************)
ActivityIds == << "A1", "A2", "A41" >>

IdSet == {ActivityIds[i] : i \in DOMAIN ActivityIds}

\* Manpower and cost columns of the file, per id.  The amounts are even and
\* the planned head counts divide the manpower cost, so that every cost the
\* program derives from them is a whole number and every score a whole
\* number of thousandths.
planned_manpower == [id \in IdSet |-> 4]

skilled_manpower == [id \in IdSet |-> 2]

semi_skilled_manpower == [id \in IdSet |-> 1]

unskilled_manpower == [id \in IdSet |-> 1]

skilled_cost_per_day == [id \in IdSet |-> 16]

semi_skilled_cost_per_day == [id \in IdSet |-> 6]

unskilled_cost_per_day == [id \in IdSet |-> 2]

manpower_cost_per_day == [id \in IdSet |-> 40]

rented_equipment_cost_per_day == [id \in IdSet |-> 20]

owned_equipment_om_cost_per_day == [id \in IdSet |-> 10]

no_equipment_cost_per_day == [id \in IdSet |-> 0]

site_overhead_cost_per_day == [id \in IdSet |-> 12]

csv_total_delay_cost_per_day == ("A1" :> 10) @@ ("A2" :> 50) @@ ("A41" :> 100)

\* src/app.py:243-249, 261-267, 669-675: the literal list of "critical" ids.
critical_path_sequence ==
    << "A1", "A2", "A3", "A4", "A5", "A6", "A7", "A8", "A9", "A10",
       "A11", "A12", "A13", "A14", "A15", "A16", "A17", "A18", "A19", "A20",
       "A21", "A22", "A23", "A24", "A25", "A26", "A27", "A28", "A29", "A30",
       "A31", "A32", "A33", "A34", "A35", "A36", "A37", "A38", "A39", "A40",
       "A118", "A119", "A120", "A121", "A122" >>

VARIABLES
    csv,                    \* rows of activities.csv, in file order
    actual_completion_days, \* session['actual_completion_days']: id -> day
    current_day,            \* session['current_day']
    method,                 \* request.method of the last request ("none": no request yet)
    overrides,              \* request.form of the last request: the override
                            \* fields, per activity id (a GET has none)
    requests                \* requests that have read the session and not yet
                            \* answered, with the session values they hold

vars == << csv, actual_completion_days, current_day, method, overrides, requests >>

(***************************************************************************)
(* Python built-ins.                                                       *)
(***************************************************************************)
Max(S) == CHOOSE x \in S : \A y \in S : y <= x

Min(S) == CHOOSE x \in S : \A y \in S : x <= y

Range(s) == {s[i] : i \in DOMAIN s}

RECURSIVE SumSeq(_)
SumSeq(s) == IF s = << >> THEN 0 ELSE Head(s) + SumSeq(Tail(s))

get(d, key, default) == IF key \in DOMAIN d THEN d[key] ELSE default

put(d, key, value) == (key :> value) @@ d

\* position of the dictionary with the given id in the store
IndexOf(acts, id) == CHOOSE i \in DOMAIN acts : acts[i].id = id

(***************************************************************************)
(* load_activities (src/app.py:46-113): one dictionary per row, the        *)
(* columns converted to integers and dependency_ids split into its ids.    *)
(* The rows of the model hold the converted values.  (Lines 101-112 add    *)
(* the score keys with value 0, which is also the default they are read    *)
(* with.)                                                                  *)
(***************************************************************************)
load_activities(rows) == rows

(***************************************************************************)
(* get_ready_activities (src/app.py:489-523).  `ledger` is a function from *)
(* the completed ids to their completion days.                             *)
(***************************************************************************)
\* A faulty variant of is_ready: the day of the latest dependency completion
\* itself is accepted (>= latest, not >= latest + 1).
is_ready_on_completion_day(activity, ledger, day) ==
    IF activity.id \in DOMAIN ledger /\ ledger[activity.id] <= day
    THEN FALSE
    ELSE IF activity.dependency_ids = {}
    THEN day >= activity.start_day
    ELSE IF \E dep \in activity.dependency_ids : dep \notin DOMAIN ledger
    THEN FALSE
    ELSE LET latest_dep_completion ==
                 Max({ledger[dep] : dep \in activity.dependency_ids})
         IN  day >= latest_dep_completion /\ day >= activity.start_day

\* a variant without the test of line 493: a completed activity is not skipped
is_ready_completed_kept(activity, ledger, day) ==
    IF activity.dependency_ids = {}
    THEN day >= activity.start_day
    ELSE IF \E dep \in activity.dependency_ids : dep \notin DOMAIN ledger
    THEN FALSE
    ELSE LET latest_dep_completion ==
                 Max({ledger[dep] : dep \in activity.dependency_ids})
         IN  day >= latest_dep_completion + 1 /\ day >= activity.start_day

is_ready(activity, ledger, day) ==
    IF activity.id \in DOMAIN ledger /\ ledger[activity.id] <= day
    THEN FALSE                                             \* line 493: continue
    ELSE IF activity.dependency_ids = {}
    THEN day >= activity.start_day                         \* lines 496-501
    ELSE IF \E dep \in activity.dependency_ids : dep \notin DOMAIN ledger
    THEN FALSE                                             \* lines 505-512
    ELSE LET latest_dep_completion ==
                 Max({ledger[dep] : dep \in activity.dependency_ids})
         IN  day >= latest_dep_completion + 1 /\ day >= activity.start_day

\* the list the function returns: the ready dictionaries, by id, in file order
get_ready_activities(acts, ledger, day) ==
    LET Ready[i \in 0..Len(acts)] ==
            IF i = 0 THEN << >>
            ELSE IF is_ready(acts[i], ledger, day)
                 THEN Append(Ready[i - 1], acts[i].id)
                 ELSE Ready[i - 1]
    IN  Ready[Len(acts)]

\* lines 500 and 511: what the function writes into the dictionaries it returns
set_available_manpower(acts, ledger, day) ==
    [i \in DOMAIN acts |->
        IF is_ready(acts[i], ledger, day)
        THEN put(acts[i], "available_manpower", acts[i].planned_manpower)
        ELSE acts[i]]

(***************************************************************************)
(* get_status (src/app.py:525-535).                                        *)
(***************************************************************************)
\* A faulty variant of get_status: the day of completion itself is reported
\* as pending (the elif of line 530 lost).
get_status_after_only(activity_id, ledger, day) ==
    IF activity_id \in DOMAIN ledger
    THEN IF day > ledger[activity_id] THEN "Completed" ELSE "Pending"
    ELSE "Pending"

get_status(activity_id, ledger, day) ==
    IF activity_id \in DOMAIN ledger
    THEN IF day > ledger[activity_id] THEN "Completed"
         ELSE IF day = ledger[activity_id] THEN "Completed Today"
         ELSE "Pending"
    ELSE "Pending"

(***************************************************************************)
(* is_activity_critical (src/app.py:239-255): membership of the id in the  *)
(* literal list; the critical_path argument is not read.                   *)
(***************************************************************************)
\* the ids of the literal list
critical_ids == Range(critical_path_sequence)

is_activity_critical(activity) == activity.id \in critical_ids

(***************************************************************************)
(* get_critical_path (src/app.py:666-778).                                 *)
(***************************************************************************)
\* lines 694-707: forward pass, one visit per activity in file order; the maps
\* start at 0 and a dependency not yet visited is read as 0.
RECURSIVE forward_pass(_, _, _, _)
forward_pass(acts, i, earliest_start, earliest_finish) ==
    IF i > Len(acts)
    THEN [earliest_start |-> earliest_start, earliest_finish |-> earliest_finish]
    ELSE LET act == acts[i]
             max_dep_finish ==
                 Max({0} \cup {earliest_finish[dep] :
                        dep \in act.dependency_ids \cap DOMAIN earliest_finish})
             es == IF act.dependency_ids = {}
                   THEN act.start_day
                   ELSE Max({max_dep_finish + 1, act.start_day})
         IN  forward_pass(acts, i + 1,
                          [earliest_start EXCEPT ![act.id] = es],
                          [earliest_finish EXCEPT ![act.id] = es + act.duration - 1])

\* lines 715-720: reverse_deps[dep], the ids of the activities that list dep
reverse_deps(acts, id) ==
    {acts[j].id : j \in {k \in DOMAIN acts : id \in acts[k].dependency_ids}}

\* lines 711-733: backward pass, one visit per activity in reversed file order;
\* latest_start starts at 0 and a successor not yet visited is read as 0.
RECURSIVE backward_pass(_, _, _, _, _)
backward_pass(acts, i, duration, latest_start, latest_finish) ==
    IF i < 1
    THEN [latest_start |-> latest_start, latest_finish |-> latest_finish]
    ELSE LET act == acts[i]
             succ == reverse_deps(acts, act.id)
             lf == IF succ = {}
                   THEN duration
                   ELSE Min({latest_start[succ_id] : succ_id \in succ}) - 1
         IN  backward_pass(acts, i - 1, duration,
                           [latest_start EXCEPT ![act.id] = lf - act.duration + 1],
                           [latest_finish EXCEPT ![act.id] = lf])

\* lines 736-757: what the last loop writes into one dictionary
float_values(act, acts, fw, bw, duration) ==
    LET successors == reverse_deps(acts, act.id)
        free_float ==
            IF successors # {}
            THEN Min({fw.earliest_start[s] : s \in successors})
                     - fw.earliest_finish[act.id] - 1
            ELSE duration - fw.earliest_finish[act.id]
        total_float == bw.latest_start[act.id] - fw.earliest_start[act.id]
    IN  [ early_start  |-> fw.earliest_start[act.id],
          early_finish |-> fw.earliest_finish[act.id],
          late_start   |-> bw.latest_start[act.id],
          late_finish  |-> bw.latest_finish[act.id],
          total_float  |-> Max({0, total_float}),
          free_float   |-> Max({0, free_float}) ] @@ act

get_critical_path(acts) ==
    LET ids == {acts[i].id : i \in DOMAIN acts}
        \* lines 677-690: the "critical path" is the literal list, filtered
        critical_path ==
            SelectSeq(critical_path_sequence, LAMBDA activity_id : activity_id \in ids)
        total_duration ==
            SumSeq([n \in DOMAIN critical_path |->
                        acts[IndexOf(acts, critical_path[n])].duration])
        fw == forward_pass(acts, 1, [id \in ids |-> 0], [id \in ids |-> 0])
        max_finish == Max({fw.earliest_finish[id] : id \in ids})    \* line 710
        bw == backward_pass(acts, Len(acts), max_finish,
                            [id \in ids |-> 0], [id \in ids |-> max_finish])
    IN  [ acts             |-> [i \in DOMAIN acts |->
                                   float_values(acts[i], acts, fw, bw, max_finish)],
          critical_paths   |-> << critical_path >>,       \* line 773
          project_duration |-> total_duration ]

(***************************************************************************)
(* get_equipment_cost (src/app.py:859-866).                                *)
(***************************************************************************)
get_equipment_cost(activity, equipment_type) ==
    IF equipment_type = "rented" THEN activity.rented_equipment_cost_per_day
    ELSE IF equipment_type = "owned" THEN activity.owned_equipment_om_cost_per_day
    ELSE activity.no_equipment_cost_per_day

(***************************************************************************)
(* calculate_score (src/app.py:289-456), called with activity given: what  *)
(* it writes into the activity dictionary.                                 *)
(*   line 297  divides by planned_manpower: with planned_manpower = 0 the  *)
(*             ZeroDivisionError is caught at line 439 before any write;   *)
(*   line 308  writes base_delay_cost_per_day, the manpower cost scaled by *)
(*             available_manpower / planned_manpower;                      *)
(*   line 319  writes total_delay_cost_per_day = 0 when the activity has   *)
(*             free float and its current delay is within it.              *)
(* No other line of the function writes to the dictionary.                 *)
(***************************************************************************)
calculate_score(activity) ==
    IF activity.planned_manpower = 0
    THEN activity
    ELSE LET available_manpower ==
                 get(activity, "available_manpower", activity.planned_manpower)
             base_manpower_cost ==
                 (activity.manpower_cost_per_day * available_manpower)
                     \div activity.planned_manpower
             equipment_type == get(activity, "equipment_type", "owned")
             base_daily_cost ==
                 base_manpower_cost + get_equipment_cost(activity, equipment_type)
             based == put(activity, "base_delay_cost_per_day", base_daily_cost)
             free_float == get(activity, "free_float", 0)
             current_delay == get(activity, "current_delay", 0)
         IN  IF free_float > 0 /\ current_delay <= free_float
             THEN put(based, "total_delay_cost_per_day", 0)
             ELSE based

(***************************************************************************)
(* calculate_sequence_cost (src/app.py:115-165).  `sequence` is a tuple of *)
(* ids; the dictionaries are looked up by id and written by                *)
(* calculate_score, so the store is returned with the cost.                *)
(***************************************************************************)
RECURSIVE sequence_cost_loop(_, _, _, _, _, _)
sequence_cost_loop(sequence, acts, day, i, total_delay_cost, sequence_scores) ==
    IF i > Len(sequence)
    THEN [ total_delay_cost |-> total_delay_cost,
           sequence_scores  |-> sequence_scores,
           acts             |-> acts ]
    ELSE LET k == IndexOf(acts, sequence[i])
             activity == acts[k]
             delay_days == day - activity.start_day
             \* lines 131-140: the first activity of the sequence is not charged
             delay_cost == IF i > 1 /\ delay_days > 0
                           THEN delay_days * activity.total_delay_cost_per_day
                           ELSE 0
         IN  sequence_cost_loop(
                 sequence,
                 [acts EXCEPT ![k] = calculate_score(activity)],  \* lines 145-154
                 day, i + 1, total_delay_cost + delay_cost,
                 Append(sequence_scores,
                        [id |-> activity.id, delay_cost |-> delay_cost]))

calculate_sequence_cost(sequence, acts, day) ==
    sequence_cost_loop(sequence, acts, day, 1, 0, << >>)

(***************************************************************************)
(* get_all_sequences (src/app.py:167-175): itertools.permutations of the   *)
(* ready ids, in the order itertools yields them (by position).  The list  *)
(* of all permutations is built in memory: for more than MaxSequenceIds    *)
(* ids (12! tuples and more) it cannot be held, list() raises MemoryError  *)
(* and the handler of lines 173-175 returns the empty list.  (A process    *)
(* that the system stops for lack of memory answers nothing: the model     *)
(* describes the requests that are answered.)                              *)
(***************************************************************************)
MaxSequenceIds == 11

RemoveAt(s, i) == SubSeq(s, 1, i - 1) \o SubSeq(s, i + 1, Len(s))

RECURSIVE get_all_sequences(_)
get_all_sequences(ids) ==
    IF Len(ids) > MaxSequenceIds
    THEN << >>                                              \* lines 173-175
    ELSE IF ids = << >>
    THEN << << >> >>
    ELSE LET From[i \in 0..Len(ids)] ==
                 IF i = 0 THEN << >>
                 ELSE LET rest == get_all_sequences(RemoveAt(ids, i))
                      IN  From[i - 1] \o
                          [n \in DOMAIN rest |-> << ids[i] >> \o rest[n]]
         IN  From[Len(ids)]

(***************************************************************************)
(* find_best_sequence (src/app.py:177-212).  `ready_ids` are the ids of    *)
(* the list passed in.  min_cost starts at float('inf'): `found` is false  *)
(* until the first cost has been compared.                                 *)
(***************************************************************************)
\* a variant in which a later sequence of equal cost replaces the best one
RECURSIVE best_sequence_loop_last_minimum(_, _, _, _, _, _, _, _)
best_sequence_loop_last_minimum(all_sequences, n, acts, day, options, best, cost_min, found) ==
    IF n > Len(all_sequences)
    THEN [ options |-> options, best |-> best, cost_min |-> cost_min, acts |-> acts ]
    ELSE LET r == calculate_sequence_cost(all_sequences[n], acts, day)
             better == ~found \/ r.total_delay_cost <= cost_min
         IN  best_sequence_loop_last_minimum(
                 all_sequences, n + 1, r.acts, day,
                 Append(options, [ sequence         |-> all_sequences[n],
                                   total_delay_cost |-> r.total_delay_cost,
                                   activities       |-> r.sequence_scores,
                                   is_best          |-> FALSE ]),
                 IF better THEN all_sequences[n] ELSE best,
                 IF better THEN r.total_delay_cost ELSE cost_min,
                 TRUE)

RECURSIVE best_sequence_loop(_, _, _, _, _, _, _, _)
best_sequence_loop(all_sequences, n, acts, day, options, best, cost_min, found) ==
    IF n > Len(all_sequences)
    THEN [ options |-> options, best |-> best, cost_min |-> cost_min, acts |-> acts ]
    ELSE LET r == calculate_sequence_cost(all_sequences[n], acts, day)
             better == ~found \/ r.total_delay_cost < cost_min   \* line 199
         IN  best_sequence_loop(
                 all_sequences, n + 1, r.acts, day,
                 Append(options, [ sequence         |-> all_sequences[n],
                                   total_delay_cost |-> r.total_delay_cost,
                                   activities       |-> r.sequence_scores,
                                   is_best          |-> FALSE ]),
                 IF better THEN all_sequences[n] ELSE best,
                 IF better THEN r.total_delay_cost ELSE cost_min,
                 TRUE)

\* lines 204-207: the first option whose sequence equals best_sequence
mark_best(options, best) ==
    [n \in DOMAIN options |->
        IF /\ options[n].sequence = best
           /\ \A m \in 1..(n - 1) : options[m].sequence # best
        THEN [options[n] EXCEPT !.is_best = TRUE]
        ELSE options[n]]

find_best_sequence(ready_ids, acts, day) ==
    IF ready_ids = << >>
    THEN [ best_sequence |-> << >>, min_cost |-> 0, sequence_options |-> << >>,
           acts |-> acts ]                                      \* lines 182-183
    ELSE LET r == best_sequence_loop(get_all_sequences(ready_ids), 1, acts, day,
                                     << >>, << >>, 0, FALSE)
         IN  [ best_sequence    |-> r.best,
               min_cost         |-> r.cost_min,
               sequence_options |-> mark_best(r.options, r.best),
               acts             |-> r.acts ]

(***************************************************************************)
(* is_activity_close_to_critical (src/app.py:257-287).  Line 275 tests     *)
(* whether the activity's id is contained, as a string, in a listed id:    *)
(* every listed id contains itself, and the other ids of the model's files *)
(* ("A41", "A99") are contained in no listed id.                           *)
(***************************************************************************)
is_activity_close_to_critical(activity) ==
    \/ activity.dependency_ids \cap critical_ids # {}     \* lines 272, 280
    \/ activity.id \in critical_ids                       \* line 275

(***************************************************************************)
(* update_activity_delay_costs (src/app.py:868-910).  It is called with    *)
(* the list get_critical_path returned, whose only element is the list of  *)
(* the critical activities: when that inner list is not empty, line 906    *)
(* indexes it with 'id', the TypeError is caught at line 909 and the loop  *)
(* is left after the first activity has been written.  Nothing sets        *)
(* 'is_delayed' anywhere in the program.                                   *)
(***************************************************************************)
delay_costs(activity) ==
    LET available_manpower ==
            get(activity, "available_manpower", activity.planned_manpower)
        base_manpower_cost ==
            (activity.manpower_cost_per_day * available_manpower)
                \div activity.planned_manpower
        equipment_cost ==
            get_equipment_cost(activity, get(activity, "equipment_type", "owned"))
        base_daily_cost == base_manpower_cost + equipment_cost
        is_critical == is_activity_critical(activity)
        is_close_to_critical == is_activity_close_to_critical(activity)
        total_delay_cost ==
            IF is_critical
            THEN base_daily_cost + activity.site_overhead_cost_per_day
            ELSE IF is_close_to_critical /\ get(activity, "is_delayed", FALSE)
            THEN base_daily_cost + activity.site_overhead_cost_per_day \div 2
            ELSE base_daily_cost
    IN  [ base_delay_cost_per_day  |-> base_daily_cost,
          total_delay_cost_per_day |-> total_delay_cost,
          is_critical              |-> is_critical,
          is_close_to_critical     |-> is_close_to_critical ] @@ activity

RECURSIVE update_delay_costs_loop(_, _, _)
update_delay_costs_loop(acts, critical_path, i) ==
    IF i > Len(acts)
    THEN acts
    ELSE IF acts[i].planned_manpower = 0
    THEN acts                                   \* line 873 raises
    ELSE IF critical_path # << >> /\ critical_path[1] # << >>
    THEN [acts EXCEPT ![i] = delay_costs(acts[i])]      \* line 906 raises
    ELSE update_delay_costs_loop([acts EXCEPT ![i] = delay_costs(acts[i])],
                                 critical_path, i + 1)

update_activity_delay_costs(acts, critical_path, day) ==
    update_delay_costs_loop(acts, critical_path, 1)

(***************************************************************************)
(* The override fields of a POST (src/app.py:1050-1102), for one activity. *)
(* `fields` is the part of request.form that belongs to the activity, a    *)
(* field that was not submitted being absent.  Ratios and scores are held  *)
(* in thousandths: a material percentage p is stored as p / 100, that is   *)
(* 10 * p thousandths.                                                     *)
(***************************************************************************)
override_activity(activity, sequence, fields) ==
    LET skilled_idle == get(fields, "skilled_idle", 0)
        semi_skilled_idle == get(fields, "semi_skilled_idle", 0)
        unskilled_idle == get(fields, "unskilled_idle", 0)
        available_skilled == Max({0, activity.skilled_manpower - skilled_idle})
        available_semi_skilled ==
            Max({0, activity.semi_skilled_manpower - semi_skilled_idle})
        available_unskilled ==
            Max({0, activity.unskilled_manpower - unskilled_idle})
        material_type == get(fields, "material_type", "100")
        material ==
            IF material_type = "custom"
            THEN 10 * get(fields, "material_percentage", 100)     \* line 1076
            ELSE IF material_type = "0" THEN 0 ELSE 1000
        equipment_type == get(fields, "equipment_type", "owned")
        actual_manpower_cost ==
            available_skilled * activity.skilled_cost_per_day
                + available_semi_skilled * activity.semi_skilled_cost_per_day
                + available_unskilled * activity.unskilled_cost_per_day
        base == actual_manpower_cost + get_equipment_cost(activity, equipment_type)
        total ==
            IF is_activity_critical(activity)
            THEN base + activity.site_overhead_cost_per_day
            ELSE IF is_activity_close_to_critical(activity)
                    /\ get(activity, "is_delayed", FALSE)
            THEN base + activity.site_overhead_cost_per_day \div 2
            ELSE base
    IN  [ is_first_in_parallel         |->
              (sequence # << >> /\ activity.id = sequence[1]),
          skilled_idle                 |-> skilled_idle,
          semi_skilled_idle            |-> semi_skilled_idle,
          unskilled_idle               |-> unskilled_idle,
          available_skilled            |-> available_skilled,
          available_semi_skilled       |-> available_semi_skilled,
          available_unskilled          |-> available_unskilled,
          available_manpower           |->
              available_skilled + available_semi_skilled + available_unskilled,
          material                     |-> material,
          equipment_type               |-> equipment_type,
          actual_manpower_cost_per_day |-> actual_manpower_cost,
          base_delay_cost_per_day      |-> base,
          total_delay_cost_per_day     |-> total ] @@ activity

apply_overrides(acts, sequence, form_fields) ==
    [i \in DOMAIN acts |->
        override_activity(acts[i], sequence, form_fields[acts[i].id])]

(***************************************************************************)
(* round(x, 2) on a value held in thousandths: to the nearest hundredth,   *)
(* a tie going to the even hundredth.                                      *)
(***************************************************************************)
round2(x) ==
    LET q == x \div 10
        r == x % 10
    IN  10 * (IF r < 5 THEN q
              ELSE IF r > 5 THEN q + 1
              ELSE IF q % 2 = 0 THEN q ELSE q + 1)

(***************************************************************************)
(* The delay score of calculate_score (src/app.py:310-349), in thousandths *)
(* of a point: 0 for an activity that has free float and whose current     *)
(* delay is within it, else 35 points scaled by the delay cost per day.    *)
(***************************************************************************)
calculate_delay_score_any_float(activity) ==
    LET free_float == get(activity, "free_float", 0)
        current_delay == get(activity, "current_delay", 0)
        current_delay_cost == get(activity, "total_delay_cost_per_day", 0)
    IN  IF current_delay <= free_float
        THEN 0
        ELSE IF current_delay_cost > 0
        THEN Min({35000, 35 * current_delay_cost})
        ELSE 35000

calculate_delay_score(activity) ==
    LET free_float == get(activity, "free_float", 0)
        current_delay == get(activity, "current_delay", 0)
        current_delay_cost == get(activity, "total_delay_cost_per_day", 0)
    IN  IF free_float > 0 /\ current_delay <= free_float
        THEN 0                                                    \* line 320
        ELSE IF current_delay_cost > 0
        THEN Min({35000, 35 * current_delay_cost})                \* line 346
        ELSE 35000                                                \* line 349

(***************************************************************************)
(* calculate_score (src/app.py:289-456): the dictionary it returns, in     *)
(* thousandths of a point.  `material` is its first argument; `activity`   *)
(* is the dictionary as the caller passes it.  'parallel_group' is written *)
(* by the callers only after the call (lines 1237, 1425) on dictionaries   *)
(* that are rebuilt for every request, so lines 324-340 and 410-418 are    *)
(* never entered.                                                          *)
(***************************************************************************)
score_details(material, activity) ==
    IF activity.planned_manpower = 0
    THEN [ total_score |-> 50000, delay_score |-> 17500, equipment_score |-> 0,
           manpower_score |-> 7500, material_score |-> 5000,
           critical_path_score |-> 7500 ]                   \* lines 442-449
    ELSE
    LET delay_score == calculate_delay_score(activity)
        equipment_type == get(activity, "equipment_type", "owned")
        equipment_score ==
            IF equipment_type = "rented" THEN 25000
            ELSE IF equipment_type = "owned"
                    /\ activity.rented_equipment_cost_per_day > 0
            THEN (activity.owned_equipment_om_cost_per_day * 25000)
                     \div activity.rented_equipment_cost_per_day
            ELSE 0
        ratio(available, planned) ==
            IF planned > 0 THEN Min({1000, (available * 1000) \div planned}) ELSE 0
        skilled_ratio ==
            ratio(get(activity, "available_skilled", activity.skilled_manpower),
                  activity.skilled_manpower)
        semi_skilled_ratio ==
            ratio(get(activity, "available_semi_skilled",
                      activity.semi_skilled_manpower),
                  activity.semi_skilled_manpower)
        unskilled_ratio ==
            ratio(get(activity, "available_unskilled", activity.unskilled_manpower),
                  activity.unskilled_manpower)
        manpower_score ==
            skilled_ratio * 7 + semi_skilled_ratio * 5 + unskilled_ratio * 3
        material_score == material * 10
        critical_path_score ==
            IF is_activity_critical(activity) THEN 15000
            ELSE IF is_activity_close_to_critical(activity) THEN 10000
            ELSE 0
        total_score ==
            delay_score + equipment_score + manpower_score + material_score
                + critical_path_score
    IN  [ total_score         |-> round2(total_score),
          delay_score         |-> round2(delay_score),
          equipment_score     |-> round2(equipment_score),
          manpower_score      |-> round2(manpower_score),
          material_score      |-> round2(material_score),
          critical_path_score |-> round2(critical_path_score) ]

(***************************************************************************)
(* One turn of the scoring loop of a POST (src/app.py:1194-1234).  The     *)
(* same lines serve a GET (1371-1422) after its defaults.                  *)
(***************************************************************************)
score_activity(activity, sequence, day) ==
    LET is_first_in_parallel == sequence # << >> /\ activity.id = sequence[1]
        delay_cost_per_day ==
            IF ~is_first_in_parallel /\ day - activity.start_day > 0
            THEN activity.total_delay_cost_per_day
            ELSE 0
        prepared ==
            [ is_first_in_parallel |-> is_first_in_parallel,
              delay_cost_per_day   |-> delay_cost_per_day,
              current_delay        |-> Max({0, day - activity.start_day}) ]
                @@ activity
    IN  score_details(prepared.material, prepared) @@ calculate_score(prepared)

\* the defaults a GET writes before scoring (src/app.py:1376-1384)
get_defaults(activity) ==
    [ skilled_idle           |-> 0,
      semi_skilled_idle      |-> 0,
      unskilled_idle         |-> 0,
      available_skilled      |-> activity.skilled_manpower,
      available_semi_skilled |-> activity.semi_skilled_manpower,
      available_unskilled    |-> activity.unskilled_manpower,
      available_manpower     |-> activity.planned_manpower,
      material               |-> 1000,
      equipment              |-> TRUE ] @@ activity

\* the scoring loops over the ready activities; `ready_ids` holds their ids
score_ready(acts, ready_ids, sequence, day, is_get) ==
    [i \in DOMAIN acts |->
        IF acts[i].id \in Range(ready_ids)
        THEN score_activity(IF is_get THEN get_defaults(acts[i]) ELSE acts[i],
                            sequence, day)
        ELSE acts[i]]

(***************************************************************************)
(* ready_activities.sort(key=total_score, reverse=True), lines 1274 and    *)
(* 1461: a stable sort, activities of equal score keep their order.        *)
(***************************************************************************)
RECURSIVE sort_by_score(_, _)
sort_by_score(ready_ids, acts) ==
    IF ready_ids = << >>
    THEN << >>
    ELSE LET score(id) == get(acts[IndexOf(acts, id)], "total_score", 0)
             top == Max({score(ready_ids[n]) : n \in DOMAIN ready_ids})
             first == CHOOSE n \in DOMAIN ready_ids :
                          /\ score(ready_ids[n]) = top
                          /\ \A m \in 1..(n - 1) : score(ready_ids[m]) # top
         IN  << ready_ids[first] >> \o sort_by_score(RemoveAt(ready_ids, first), acts)

(***************************************************************************)
(* get_parallel_activities (src/app.py:214-237): the ready activities that *)
(* have dependencies, grouped by their set of dependencies in the order in *)
(* which each set first occurs; a group is kept when more than one of its  *)
(* members has start_day <= current day.  A group is a tuple of ids.       *)
(***************************************************************************)
get_parallel_activities(ready_ids, acts, day) ==
    LET dependencies(id) == acts[IndexOf(acts, id)].dependency_ids
        start(id) == acts[IndexOf(acts, id)].start_day
        keyed == SelectSeq(ready_ids, LAMBDA id : dependencies(id) # {})
        group(n) ==
            SelectSeq(keyed, LAMBDA id : /\ dependencies(id) = dependencies(keyed[n])
                                         /\ start(id) <= day)
        kept == {n \in DOMAIN keyed :
                    /\ \A m \in 1..(n - 1) :
                           dependencies(keyed[m]) # dependencies(keyed[n])
                    /\ Len(group(n)) > 1}
        RECURSIVE groups_from(_)
        groups_from(n) ==
            IF n > Len(keyed) THEN << >>
            ELSE (IF n \in kept THEN << group(n) >> ELSE << >>)
                     \o groups_from(n + 1)
    IN  groups_from(1)

(***************************************************************************)
(* get_planned_finish_day (src/app.py:465-487).  A dependency without a    *)
(* ledger entry counts with its planned finish, one that is not in the     *)
(* file is left out.                                                       *)
(***************************************************************************)
get_planned_finish_day(activity, acts, ledger) ==
    LET ids == {acts[i].id : i \in DOMAIN acts}
        planned(dep) == LET dep_activity == acts[IndexOf(acts, dep)]
                        IN  dep_activity.start_day + dep_activity.duration - 1
        dep_days == {ledger[dep] : dep \in activity.dependency_ids \cap DOMAIN ledger}
                        \cup {planned(dep) :
                                 dep \in (activity.dependency_ids \cap ids)
                                             \ DOMAIN ledger}
        earliest_start ==
            IF dep_days # {}
            THEN Max({Max(dep_days) + 1, activity.start_day})
            ELSE activity.start_day
    IN  earliest_start + activity.duration - 1

(***************************************************************************)
(* The per-activity summary of a POST (src/app.py:1110-1173).              *)
(***************************************************************************)
\* lines 1129-1140: the duration used for an activity completed by `day`
actual_duration(activity, ledger, day) ==
    LET dep_days == {ledger[dep] :
                        dep \in {d \in activity.dependency_ids \cap DOMAIN ledger :
                                    ledger[d] <= day}}
        actual_start ==
            IF dep_days # {}
            THEN Max({Max(dep_days) + 1, activity.start_day})
            ELSE activity.start_day
    IN  ledger[activity.id] - actual_start + 1

summary_row(activity, acts, ledger, day, equipment_type) ==
    LET planned_finish == get_planned_finish_day(activity, acts, ledger)
        per_day_cost == activity.manpower_cost_per_day
                            + get_equipment_cost(activity, equipment_type)
        planned_cost == activity.duration * per_day_cost
        completed == activity.id \in DOMAIN ledger /\ ledger[activity.id] <= day
        delay_days == IF completed
                      THEN Max({0, ledger[activity.id] - planned_finish})
                      ELSE 0
        free_float == get(activity, "free_float", 0)
        early == completed /\ actual_duration(activity, ledger, day) < activity.duration
        within == completed /\ ~early /\ free_float > 0 /\ delay_days <= free_float
        effective_delay_days ==
            IF free_float > 0 THEN Max({0, delay_days - free_float}) ELSE delay_days
        actual_cost ==
            IF early THEN actual_duration(activity, ledger, day) * per_day_cost
            ELSE IF completed /\ ~within
            THEN (activity.duration + effective_delay_days) * per_day_cost
            ELSE planned_cost
    IN  [ id                 |-> activity.id,
          status             |-> get_status(activity.id, ledger, day),
          planned_finish_day |-> planned_finish,
          delay_days         |-> delay_days,
          planned_cost       |-> planned_cost,
          actual_cost        |-> actual_cost,
          delay_cost         |-> IF completed /\ ~early /\ ~within
                                 THEN actual_cost - planned_cost ELSE 0,
          equipment_type     |-> equipment_type ]

(***************************************************************************)
(* optimize_for_large_project (src/app.py:912-943).  A list of at most     *)
(* max_parallel_activities is returned as it is.  A longer one is sorted   *)
(* by priority_score, highest first (sorted() is stable: equal priorities  *)
(* keep their order), and cut to its first max_parallel_activities.        *)
(***************************************************************************)
priority_score(activity) ==
    (IF get(activity, "is_critical", FALSE) THEN 1000 ELSE 0)   \* lines 930-931
        + get(activity, "total_delay_cost_per_day", 0)           \* line 934
        + (1000 - get(activity, "start_day", 1))                 \* line 937

RECURSIVE sort_by_priority(_, _)
sort_by_priority(ids, acts) ==
    IF ids = << >>
    THEN << >>
    ELSE LET priority(id) == priority_score(acts[IndexOf(acts, id)])
             top == Max({priority(ids[n]) : n \in DOMAIN ids})
             first == CHOOSE n \in DOMAIN ids :
                          /\ priority(ids[n]) = top
                          /\ \A m \in 1..(n - 1) : priority(ids[m]) # top
         IN  << ids[first] >> \o sort_by_priority(RemoveAt(ids, first), acts)

optimize_for_large_project(ids, acts, max_parallel_activities) ==
    IF Len(ids) <= max_parallel_activities
    THEN ids                                                     \* lines 917-918
    ELSE SubSeq(sort_by_priority(ids, acts), 1, max_parallel_activities)

\* lines 1032-1034 and 1360-1362: the call and its two literal numbers
LargeReadyCount == 10

MaxParallelActivities == 15

limit_ready_activities(ids, acts) ==
    IF Len(ids) > LargeReadyCount
    THEN optimize_for_large_project(ids, acts, MaxParallelActivities)
    ELSE ids

(***************************************************************************)
(* The activity files the model ranges over.  A row may depend on a row    *)
(* listed after it: the file is read in the order given.                   *)
(***************************************************************************)
IsAcyclic(deps) ==
    \E rank \in [IdSet -> 1..Cardinality(IdSet)] :
        \A a \in IdSet : \A b \in deps[a] : rank[b] < rank[a]

DependencyRelations == {deps \in [IdSet -> SUBSET IdSet] : IsAcyclic(deps)}

\* the relations of a file that lists every dependency before its dependents
ListedFirst(id) ==
    {ActivityIds[j] : j \in 1..((CHOOSE i \in DOMAIN ActivityIds : ActivityIds[i] = id) - 1)}

SortedDependencyRelations ==
    {deps \in [IdSet -> SUBSET IdSet] : \A id \in IdSet : deps[id] \subseteq ListedFirst(id)}

Rows(deps, start, dur) ==
    [i \in DOMAIN ActivityIds |->
        LET id == ActivityIds[i]
        IN  [ id                              |-> id,
              duration                        |-> dur[id],
              start_day                       |-> start[id],
              dependency_ids                  |-> deps[id],
              planned_manpower                |-> planned_manpower[id],
              skilled_manpower                |-> skilled_manpower[id],
              semi_skilled_manpower           |-> semi_skilled_manpower[id],
              unskilled_manpower              |-> unskilled_manpower[id],
              skilled_cost_per_day            |-> skilled_cost_per_day[id],
              semi_skilled_cost_per_day       |-> semi_skilled_cost_per_day[id],
              unskilled_cost_per_day          |-> unskilled_cost_per_day[id],
              manpower_cost_per_day           |-> manpower_cost_per_day[id],
              rented_equipment_cost_per_day   |-> rented_equipment_cost_per_day[id],
              owned_equipment_om_cost_per_day |-> owned_equipment_om_cost_per_day[id],
              no_equipment_cost_per_day       |-> no_equipment_cost_per_day[id],
              total_delay_cost_per_day        |-> csv_total_delay_cost_per_day[id],
              site_overhead_cost_per_day      |-> site_overhead_cost_per_day[id] ]]

\* every acyclic file with bounded start days and durations
Projects ==
    {Rows(deps, start, dur) :
        deps \in DependencyRelations,
        start \in [IdSet -> 1..MaxStartDay],
        dur \in [IdSet -> 1..MaxDuration]}

\* the files of the session model: sorted, one-day activities
SessionProjects ==
    {Rows(deps, start, [id \in IdSet |-> 1]) :
        deps \in SortedDependencyRelations,
        start \in [IdSet -> 1..MaxStartDay]}

Days == 1..MaxDay

\* the ledgers a session can hold on day `day` (see Post: an entry is written
\* with the current day and entries after a rolled-back day are dropped)
Ledgers(day) == UNION {[done -> 1..day] : done \in SUBSET IdSet}

(***************************************************************************)
(* index (src/app.py:973-1623): what a request does to the session.        *)
(***************************************************************************)
\* A faulty variant of rollback: the entries of the new day itself are dropped
\* as well (v < new_current_day).
rollback_before_only(ledger, day, new_current_day) ==
    IF new_current_day < day
    THEN [k \in {j \in DOMAIN ledger : ledger[j] < new_current_day} |-> ledger[k]]
    ELSE ledger

\* a variant that keeps every entry when the day goes back
rollback_keeping_all(ledger, day, new_current_day) == ledger

\* lines 993-1006: going to an earlier day drops the entries after it
rollback(ledger, day, new_current_day) ==
    IF new_current_day < day
    THEN [k \in {j \in DOMAIN ledger : ledger[j] <= new_current_day} |-> ledger[k]]
    ELSE ledger

\* a variant in which complete_<id> on a completed activity removes its entry
toggle_flipping(ledger, day, form) ==
    [k \in {j \in IdSet : \/ (form[j] = "complete" /\ j \notin DOMAIN ledger)
                          \/ (j \in DOMAIN ledger /\ form[j] = "none")} |->
        IF form[k] = "complete" THEN day ELSE ledger[k]]

\* lines 1014-1022: complete_<id> writes the day, else uncomplete_<id> deletes
toggle(ledger, day, form) ==
    [k \in {j \in IdSet : \/ form[j] = "complete"
                          \/ (j \in DOMAIN ledger /\ form[j] # "uncomplete")} |->
        IF form[k] = "complete" THEN day ELSE ledger[k]]

Forms == [IdSet -> {"complete", "uncomplete", "none"}]

\* a request.form without override fields: every request.form.get of lines
\* 1059-1083 returns its default
NoOverrides == [id \in IdSet |-> << >>]

\* a variant of the GET branch that resets the session
Get_resetting_session ==
    /\ method' = "GET"
    /\ overrides' = NoOverrides
    /\ actual_completion_days' = << >>
    /\ current_day' = 1
    /\ UNCHANGED << csv, requests >>

\* lines 1353-1366: a GET writes nothing to the session
Get ==
    /\ method' = "GET"
    /\ overrides' = NoOverrides
    /\ UNCHANGED << csv, actual_completion_days, current_day, requests >>

\* lines 986-1024: `form` holds the complete_/uncomplete_ keys, `fields` the
\* override fields read at lines 1059-1083
Post(new_current_day, form, fields) ==
    /\ method' = "POST"
    /\ current_day' = new_current_day                            \* line 1008
    /\ actual_completion_days' =                                 \* line 1024
           toggle(rollback(actual_completion_days, current_day, new_current_day),
                  new_current_day, form)
    /\ overrides' = fields
    /\ UNCHANGED << csv, requests >>

(***************************************************************************)
(* What the request that produced the current state computed, lines        *)
(* 1027-1038 (POST) and 1355-1366 (GET): both methods make the same calls  *)
(* on the file and on the session as the request left it.  From line 1034  *)
(* (1362) on, ready_activities is the list optimize_for_large_project      *)
(* returned when more than ten activities were ready.                      *)
(***************************************************************************)
loaded == load_activities(csv)

ready_activities ==
    limit_ready_activities(
        get_ready_activities(loaded, actual_completion_days, current_day),
        loaded)

cpm == get_critical_path(
           set_available_manpower(loaded, actual_completion_days, current_day))

activities == cpm.acts

critical_paths == cpm.critical_paths

project_duration == cpm.project_duration

seq == find_best_sequence(ready_activities, activities, current_day)

best_sequence == seq.best_sequence

min_cost == seq.min_cost

sequence_options == seq.sequence_options

seq_activities == seq.acts

(***************************************************************************)
(* The rest of the request (src/app.py:1044-1274 for a POST, 1371-1461     *)
(* for a GET): the dictionaries after each step, and the ranking.          *)
(***************************************************************************)
\* `found` is what find_best_sequence returned (line 1038)
costed(found) ==
    update_activity_delay_costs(found.acts, critical_paths, current_day)

overridden(found) ==
    apply_overrides(costed(found), found.best_sequence, overrides)

recosted(found) ==
    LET recalculated == get_critical_path(overridden(found))     \* line 1105
    IN  update_activity_delay_costs(recalculated.acts,
                                    recalculated.critical_paths, current_day)

costed_activities == costed(seq)

overridden_activities == overridden(seq)

cpm_after_overrides == get_critical_path(overridden_activities)  \* line 1105

recosted_activities == recosted(seq)

scored_activities ==
    LET found == seq
    IN  IF method = "POST"
        THEN score_ready(recosted(found), ready_activities, found.best_sequence,
                         current_day, FALSE)
        ELSE score_ready(found.acts, ready_activities, found.best_sequence,
                         current_day, TRUE)

ranking == sort_by_score(ready_activities, scored_activities)

summary ==
    LET acts == recosted_activities
    IN  [i \in DOMAIN acts |->
            summary_row(acts[i], acts, actual_completion_days, current_day,
                        get(overrides[acts[i].id], "equipment_type", "owned"))]

parallel_groups ==
    get_parallel_activities(ready_activities, loaded, current_day)  \* line 1041

(***************************************************************************)
(* The session of one browser, from its first request on.                  *)
(***************************************************************************)
Init ==
    /\ csv \in SessionProjects
    /\ actual_completion_days = << >>      \* session.get(..., {})
    /\ current_day = 1                     \* session.get('current_day', 1)
    /\ method = "none"
    /\ overrides = NoOverrides
    /\ requests = << >>

Next ==
    \/ Get
    \/ \E new_current_day \in Days, form \in Forms :
           Post(new_current_day, form, NoOverrides)

Spec == Init /\ [][Next]_vars

(***************************************************************************)
(* One request against any activity file and any stored session: the      *)
(* specification under which the scheduling functions are examined.        *)
(***************************************************************************)
InitRequest ==
    /\ csv \in Projects
    /\ current_day \in Days
    /\ actual_completion_days \in Ledgers(current_day)
    /\ method = "none"
    /\ overrides = NoOverrides
    /\ requests = << >>

NextRequest == Get

RequestSpec == InitRequest /\ [][NextRequest]_vars

(***************************************************************************)
(* Readiness (claims C1, C2).                                              *)
(***************************************************************************)
Row(id) == csv[CHOOSE i \in DOMAIN csv : csv[i].id = id]

Completed(id, ledger, day) == id \in DOMAIN ledger /\ ledger[id] <= day

\* the four conditions of the claim, written from its text
Qualifies(id, ledger, day) ==
    LET row == Row(id)
    IN  /\ ~Completed(id, ledger, day)                                  \* (1)
        /\ day >= row.start_day                                         \* (2)
        /\ \A dep \in row.dependency_ids : dep \in DOMAIN ledger         \* (3)
        /\ \A dep \in row.dependency_ids : day >= ledger[dep] + 1       \* (4)

\* C1: get_ready_activities returns exactly the activities that are not
\* completed by the current day, whose planned start day has come, whose
\* dependencies are all in the ledger and whose latest dependency completion
\* lies before the current day; each once, none else, none omitted.
C1_ReadyExactly ==
    /\ \A id \in IdSet :
           id \in Range(ready_activities)
               <=> Qualifies(id, actual_completion_days, current_day)
    /\ Len(ready_activities) = Cardinality(Range(ready_activities))

\* a served request that returns an activity with two dependencies completed
\* on different days, on the first day after the later of the two
C1_Witness ==
    /\ method = "POST"
    /\ \E id \in Range(ready_activities) :
           LET deps == Row(id).dependency_ids
           IN  /\ Cardinality(deps) = 2
               /\ \E d1, d2 \in deps :
                      /\ actual_completion_days[d1] < actual_completion_days[d2]
                      /\ current_day = actual_completion_days[d2] + 1

DependencyEntriesUnchanged(id) ==
    \A dep \in Row(id).dependency_ids :
        /\ (dep \in DOMAIN actual_completion_days)
               <=> (dep \in DOMAIN actual_completion_days')
        /\ dep \in DOMAIN actual_completion_days
               => actual_completion_days'[dep] = actual_completion_days[dep]

\* C2: readiness is monotonic in the day.  Over every request: an activity
\* that was returned as ready, whose dependencies' ledger entries the request
\* leaves as they were, and whose day does not go back, is afterwards either
\* returned as ready again or reported completed by get_status.
C2_ReadinessMonotonic ==
    [][current_day' >= current_day =>
        LET before == Range(ready_activities)
            after == Range(ready_activities')
        IN  \A id \in before :
              DependencyEntriesUnchanged(id)
              => \/ id \in after
                 \/ get_status(id, actual_completion_days', current_day')
                        \in {"Completed", "Completed Today"}]_vars

\* an activity with a dependency is ready on day 2 and, two requests later,
\* still ready on day 3 with the dependency's entry as it was
C2_Witness ==
    /\ method = "POST"
    /\ current_day = 3
    /\ \E id \in Range(ready_activities) :
           /\ Row(id).dependency_ids # {}
           /\ \A dep \in Row(id).dependency_ids : actual_completion_days[dep] = 1
           /\ Row(id).start_day <= 2

(***************************************************************************)
(* Sequence optimiser (claims C3, C4, C5): one request served from any     *)
(* file and any stored session.                                            *)
(***************************************************************************)
ById(acts, id) == acts[IndexOf(acts, id)]

\* max(0, currentDay - start_day) * total_delay_cost_per_day, read from `acts`
DelayCharge(acts, id, day) ==
    Max({0, day - ById(acts, id).start_day}) * ById(acts, id).total_delay_cost_per_day

\* the cost of a permutation as the claim defines it, at the costs of `acts`
PermutationCost(acts, sequence, day) ==
    SumSeq([i \in DOMAIN sequence |->
               IF i = 1 THEN 0 ELSE DelayCharge(acts, sequence[i], day)])

BestOptions == {n \in DOMAIN sequence_options : sequence_options[n].is_best}

\* the ready activities all have the same positive delay and distinct costs
EqualPositiveDelays ==
    /\ Len(ready_activities) >= 2
    /\ \A id \in Range(ready_activities) : current_day > Row(id).start_day
    /\ \A a, b \in Range(ready_activities) : Row(a).start_day = Row(b).start_day

Costliest ==
    CHOOSE id \in Range(ready_activities) :
        \A other \in Range(ready_activities) :
            Row(other).total_delay_cost_per_day <= Row(id).total_delay_cost_per_day

\* C3: for a non-empty ready set exactly one returned option has is_best, its
\* total_delay_cost is at most that of every other option, and so, when the
\* ready activities have equal positive delays, the best sequence starts with
\* the activity of the highest cost per day.
C3_BestSequenceMinimal ==
    (method = "GET" /\ ready_activities # << >>)
    => /\ Cardinality(BestOptions) = 1
       /\ \A n \in BestOptions : \A m \in DOMAIN sequence_options :
              sequence_options[n].total_delay_cost
                  <= sequence_options[m].total_delay_cost
       /\ EqualPositiveDelays => best_sequence[1] = Costliest

\* C4: the total_delay_cost recorded for every enumerated permutation is the
\* sum, over its activities but the first, of max(0, day - start_day) times
\* the total_delay_cost_per_day the activity had when find_best_sequence was
\* called.
C4_RecordedCostIsCostAtCall ==
    method = "GET"
    => \A n \in DOMAIN sequence_options :
           sequence_options[n].total_delay_cost
               = PermutationCost(activities, sequence_options[n].sequence, current_day)

\* C5: evaluating one permutation with calculate_sequence_cost leaves the
\* total_delay_cost_per_day of every activity as it was.
C5_SequenceCostLeavesCostPerDay ==
    method = "GET"
    => LET all_sequences == get_all_sequences(ready_activities)
       IN  \A n \in DOMAIN all_sequences :
             LET after == calculate_sequence_cost(all_sequences[n], activities,
                                                  current_day).acts
             IN  \A i \in DOMAIN activities :
                    after[i].total_delay_cost_per_day
                        = activities[i].total_delay_cost_per_day

(***************************************************************************)
(* Critical path method (claims C6 to C10).                                *)
(***************************************************************************)
Successors(id) == {other \in IdSet : id \in Row(other).dependency_ids}

MaxEarlyFinish == Max({activities[i].early_finish : i \in DOMAIN activities})

\* C6: after get_critical_path, in whatever order the file lists them, an
\* activity without dependencies has early_start = start_day, one with
\* dependencies has early_start = max(start_day, 1 + largest early_finish of
\* its dependencies), and early_finish = early_start + duration - 1.
C6_ForwardPass ==
    method = "GET"
    => \A i \in DOMAIN activities :
         LET a == activities[i]
         IN  /\ a.dependency_ids = {} => a.early_start = a.start_day
             /\ a.dependency_ids # {}
                  => a.early_start =
                       Max({a.start_day,
                            1 + Max({ById(activities, dep).early_finish :
                                       dep \in a.dependency_ids})})
             /\ a.early_finish = a.early_start + a.duration - 1

\* C7: after get_critical_path, in whatever order the file lists them, an
\* activity without successors has late_finish = the maximum early_finish, one
\* with successors has late_finish = (smallest late_start of its successors) - 1,
\* and late_start = late_finish - duration + 1.
C7_BackwardPass ==
    method = "GET"
    => \A i \in DOMAIN activities :
         LET a == activities[i]
             succ == Successors(a.id)
         IN  /\ succ = {} => a.late_finish = MaxEarlyFinish
             /\ succ # {}
                  => a.late_finish =
                       Min({ById(activities, s).late_start : s \in succ}) - 1
             /\ a.late_start = a.late_finish - a.duration + 1

\* C8: after get_critical_path on a valid DAG every activity has
\* total_float >= 0, free_float >= 0 and free_float <= total_float.
C8_Floats ==
    method = "GET"
    => \A i \in DOMAIN activities :
         /\ activities[i].total_float >= 0
         /\ activities[i].free_float >= 0
         /\ activities[i].free_float <= activities[i].total_float

\* C9: the project duration get_critical_path returns is the maximum
\* early_finish over all activities.
C9_ProjectDuration == method = "GET" => project_duration = MaxEarlyFinish

\* C10: an activity is treated as critical (is_activity_critical is true, it
\* is in the returned critical path) if and only if its total_float is 0.
C10_CriticalIffZeroFloat ==
    method = "GET"
    => \A i \in DOMAIN activities :
         LET a == activities[i]
         IN  /\ is_activity_critical(a) <=> a.total_float = 0
             /\ a.id \in Range(critical_paths[1]) <=> a.total_float = 0

\* C11: every critical path get_critical_path returns is a chain of
\* total_float = 0 activities, each a dependency of the next, from an activity
\* without dependencies to one without successors, and its durations add up
\* to the maximum early_finish.
C11_CriticalPathIsZeroFloatChain ==
    method = "GET"
    => \A p \in DOMAIN critical_paths :
         LET path == critical_paths[p]
         IN  /\ path # << >>
             /\ \A n \in DOMAIN path : ById(activities, path[n]).total_float = 0
             /\ Row(path[1]).dependency_ids = {}
             /\ Successors(path[Len(path)]) = {}
             /\ \A n \in 1..(Len(path) - 1) :
                    path[n] \in Row(path[n + 1]).dependency_ids
             /\ SumSeq([n \in DOMAIN path |-> Row(path[n]).duration])
                    = MaxEarlyFinish

(***************************************************************************)
(* Two POST requests of one browser in flight at once (claim C12).  A      *)
(* request holds its own copy of the session from the moment it reads it   *)
(* (lines 979-981) until it stores it with its answer (lines 1008, 1024);  *)
(* nothing in index() keeps a second request from reading in between.      *)
(***************************************************************************)
RequestIds == {"r1", "r2"}

\* lines 979-981: the request takes its copy of the session
ReadSession(r, new_current_day, form) ==
    /\ r \notin DOMAIN requests
    /\ requests' = put(requests, r,
                       [ pc                     |-> "read",
                         actual_completion_days |-> actual_completion_days,
                         current_day            |-> current_day,
                         new_current_day        |-> new_current_day,
                         form                   |-> form ])
    /\ UNCHANGED << csv, actual_completion_days, current_day, method, overrides >>

\* lines 986-1024: the request applies the day change and its toggles to its
\* copy and stores the copy
WriteSession(r) ==
    /\ r \in DOMAIN requests
    /\ requests[r].pc = "read"
    /\ method' = "POST"
    /\ current_day' = requests[r].new_current_day
    /\ actual_completion_days' =
           toggle(rollback(requests[r].actual_completion_days,
                           requests[r].current_day,
                           requests[r].new_current_day),
                  requests[r].new_current_day, requests[r].form)
    /\ requests' = put(requests, r, [requests[r] EXCEPT !.pc = "done"])
    /\ overrides' = NoOverrides
    /\ UNCHANGED csv

NextConcurrent ==
    \/ \E r \in RequestIds, new_current_day \in Days, form \in Forms :
           ReadSession(r, new_current_day, form)
    \/ \E r \in RequestIds : WriteSession(r)

\* the session update reads the file for its ids only: one file is enough
InitConcurrent ==
    /\ Init
    /\ \A i \in DOMAIN csv : csv[i].dependency_ids = {} /\ csv[i].start_day = 1

ConcurrentSpec == InitConcurrent /\ [][NextConcurrent]_vars

\* both requests have answered, they read the same stored session and neither
\* changed the day
BothAnsweredFromSameSession(r1, r2) ==
    /\ r1 # r2
    /\ requests[r1].pc = "done" /\ requests[r2].pc = "done"
    /\ requests[r1].actual_completion_days = requests[r2].actual_completion_days
    /\ requests[r1].current_day = requests[r2].current_day
    /\ requests[r1].new_current_day = requests[r1].current_day
    /\ requests[r2].new_current_day = requests[r2].current_day

\* C12: the ledger is read and written atomically per request.  When two POST
\* requests that read the same stored ledger have both answered, a completion
\* recorded by one of them, for an activity the other one does not touch, is
\* in the stored ledger.
C12_NoCompletionLost ==
    \A r1, r2 \in DOMAIN requests :
        BothAnsweredFromSameSession(r1, r2)
        => \A id \in IdSet :
              (requests[r1].form[id] = "complete" /\ requests[r2].form[id] = "none")
              => id \in DOMAIN actual_completion_days

(***************************************************************************)
(* Day change of a POST (claim C13).                                       *)
(***************************************************************************)
\* C13: over every POST.  When the new day is smaller than the stored day,
\* the day change removes exactly the entries with a completion day greater
\* than the new day and keeps every other entry as it is; otherwise it
\* removes none.  What is stored afterwards is a kept entry unchanged, or an
\* entry the request itself wrote with the new day.
C13_DayChangeFiltersLedger ==
    [][method' = "POST" =>
        LET kept == rollback(actual_completion_days, current_day, current_day')
        IN  /\ DOMAIN kept \subseteq DOMAIN actual_completion_days
            /\ \A k \in DOMAIN actual_completion_days :
                  IF current_day' < current_day
                       /\ actual_completion_days[k] > current_day'
                  THEN k \notin DOMAIN kept
                  ELSE k \in DOMAIN kept /\ kept[k] = actual_completion_days[k]
            /\ \A k \in DOMAIN actual_completion_days' :
                  \/ actual_completion_days'[k] = current_day'
                  \/ /\ k \in DOMAIN kept
                     /\ actual_completion_days'[k] = kept[k]]_vars

\* a session on day 3 with a completion of day 1 and one of day 3: going back
\* to day 2 keeps the first and removes the second
C13_Witness ==
    /\ method = "POST"
    /\ current_day = 3
    /\ \E a, b \in DOMAIN actual_completion_days :
          /\ actual_completion_days[a] = 1
          /\ actual_completion_days[b] = 3
          /\ DOMAIN rollback(actual_completion_days, current_day, 2) = {a}

(***************************************************************************)
(* Files that load_activities accepts although their dependency columns    *)
(* are not those of a valid project (claims C17, C18): a dependency id     *)
(* that matches no row, a dependency cycle.  load_activities (lines 46-84) *)
(* splits the column and checks nothing.                                   *)
(***************************************************************************)
MissingId == "A99"

AnyFiles ==
    {Rows(deps, start, [id \in IdSet |-> 1]) :
        deps \in [IdSet -> SUBSET (IdSet \cup {MissingId})],
        start \in [IdSet -> 1..MaxStartDay]}

InitFile ==
    /\ csv \in AnyFiles
    /\ current_day \in Days
    /\ actual_completion_days = << >>
    /\ method = "none"
    /\ overrides = NoOverrides
    /\ requests = << >>

NextFile == Get

FileSpec == InitFile /\ [][NextFile]_vars

\* the file without the dependency ids that match no row
WithoutMissingIds(rows) ==
    [i \in DOMAIN rows |->
        [rows[i] EXCEPT !.dependency_ids = @ \cap {rows[j].id : j \in DOMAIN rows}]]

HasMissingId == \E i \in DOMAIN csv : MissingId \in csv[i].dependency_ids

\* C17: an activity that names a dependency id matching no activity is
\* scheduled as if the id were not there: the forward pass gives every
\* activity the early_start it gives without the missing ids, and
\* get_ready_activities returns the activities it returns without them.
C17_MissingDependencyIgnored ==
    method = "GET"
    => /\ \A i \in DOMAIN csv :
              get_critical_path(loaded).acts[i].early_start
                  = get_critical_path(WithoutMissingIds(loaded)).acts[i].early_start
       /\ ready_activities
              = get_ready_activities(WithoutMissingIds(loaded),
                                     actual_completion_days, current_day)

HasCycle ==
    ~ \E rank \in [IdSet -> 1..Cardinality(IdSet)] :
          \A i \in DOMAIN csv : \A dep \in csv[i].dependency_ids \cap IdSet :
              rank[dep] < rank[csv[i].id]

\* C18: when the dependency relation of the file has a cycle the run is
\* refused: the answer carries no ready activity, no sequence option and no
\* critical path.
C18_CycleRefused ==
    (method = "GET" /\ HasCycle)
    => /\ ready_activities = << >>
       /\ sequence_options = << >>
       /\ critical_paths = << >>


(***************************************************************************)
(* POST requests with override fields (src/app.py:1050-1102).  A request   *)
(* carries the fields of one activity; the other activities get the        *)
(* defaults of request.form.get.  int() and float() accept a sign, so an   *)
(* idle count and a percentage may be negative.                            *)
(***************************************************************************)
MaxIdle == 3

IdleCounts == -1..MaxIdle

Percentages == {-50, 0, 50, 100, 150}

FormFields ==
    {<< >>}
        \cup {(key :> idle) :
                 key \in {"skilled_idle", "semi_skilled_idle", "unskilled_idle"},
                 idle \in IdleCounts}
        \cup {[material_type |-> "custom", material_percentage |-> p] :
                 p \in Percentages}
        \cup {[material_type |-> "0"]}
        \cup {[equipment_type |-> e] : e \in {"rented", "owned", "no_equipment"}}

NoForm == [id \in IdSet |-> "none"]

OverrideForms == {NoForm, [NoForm EXCEPT !["A1"] = "complete"]}

InitOverride ==
    /\ csv \in SessionProjects
    /\ actual_completion_days = << >>
    /\ current_day = 1
    /\ method = "none"
    /\ overrides = NoOverrides
    /\ requests = << >>

NextOverride ==
    \E new_current_day \in Days, form \in OverrideForms,
       id \in IdSet, fields \in FormFields :
        Post(new_current_day, form, [NoOverrides EXCEPT ![id] = fields])

OverrideSpec == InitOverride /\ [][NextOverride]_vars

(***************************************************************************)
(* C19.  After the override fields of a POST have been applied, every      *)
(* activity's available count of each worker type lies between 0 and the   *)
(* planned count of that type (an idle count above the planned count       *)
(* giving 0), and its base delay cost per day is not negative.             *)
(***************************************************************************)
C19_AvailableWithinPlanned ==
    method = "POST"
    => \A i \in DOMAIN overridden_activities :
           LET a == overridden_activities[i]
           IN  /\ a.available_skilled \in 0..a.skilled_manpower
               /\ a.available_semi_skilled \in 0..a.semi_skilled_manpower
               /\ a.available_unskilled \in 0..a.unskilled_manpower
               /\ a.skilled_idle > a.skilled_manpower => a.available_skilled = 0
               /\ a.base_delay_cost_per_day >= 0

(***************************************************************************)
(* C20.  After the override fields of a POST have been applied, every      *)
(* activity's material availability ratio lies in [0, 1] (0 to 1000        *)
(* thousandths).                                                           *)
(***************************************************************************)
C20_MaterialWithinUnit ==
    method = "POST"
    => \A i \in DOMAIN overridden_activities :
           overridden_activities[i].material \in 0..1000

(***************************************************************************)
(* C16.  When the delay costs of a POST have been updated (line 1108),     *)
(* every activity's total delay cost per day is its base cost plus the     *)
(* full site overhead if it is critical, plus half the site overhead if it *)
(* is close to critical and the current day is past its planned start,     *)
(* and plus nothing otherwise.  "Critical" and "close to critical" are     *)
(* read as is_activity_critical and is_activity_close_to_critical decide   *)
(* them.                                                                   *)
(***************************************************************************)
C16_OverheadCharge ==
    method = "POST"
    => \A i \in DOMAIN recosted_activities :
           LET a == recosted_activities[i]
               charge ==
                   IF is_activity_critical(a)
                   THEN a.site_overhead_cost_per_day
                   ELSE IF is_activity_close_to_critical(a)
                           /\ current_day > a.start_day
                   THEN a.site_overhead_cost_per_day \div 2
                   ELSE 0
           IN  a.total_delay_cost_per_day = a.base_delay_cost_per_day + charge


(***************************************************************************)
(* POST requests of a session on a file of any durations and start days,   *)
(* without override fields; a request may mark A1 complete.                *)
(***************************************************************************)
ScoreProjects ==
    {Rows(deps, start, dur) :
        deps \in SortedDependencyRelations,
        start \in [IdSet -> 1..MaxStartDay],
        dur \in [IdSet -> 1..MaxDuration]}

InitScore ==
    /\ csv \in ScoreProjects
    /\ actual_completion_days = << >>
    /\ current_day = 1
    /\ method = "none"
    /\ overrides = NoOverrides
    /\ requests = << >>

NextScore ==
    \E new_current_day \in Days, form \in OverrideForms :
        Post(new_current_day, form, NoOverrides)

ScoreSpec == InitScore /\ [][NextScore]_vars

\* the scored dictionaries of the ready activities, in ranking order
ScoredReady ==
    LET acts == scored_activities
    IN  [n \in DOMAIN ready_activities |->
            acts[IndexOf(acts, ready_activities[n])]]

RerunForms == {form \in Forms : form["A41"] = "none"}

NextRerun ==
    \/ Get
    \/ \E new_current_day \in Days, form \in RerunForms :
           Post(new_current_day, form, NoOverrides)

RerunSpec == Init /\ [][NextRerun]_vars

C21_SequenceReadsUpdatedCosts ==
    method = "POST"
    => LET read == activities
           annotated == recosted_activities
       IN  \A i \in DOMAIN read :
               read[i].id \in Range(ready_activities)
               => read[i].total_delay_cost_per_day
                      = annotated[i].total_delay_cost_per_day


(***************************************************************************)
(* C22.  Of the permutations find_best_sequence has costed, the one it     *)
(* returns and marks as best is the first, in the order of enumeration,    *)
(* whose recorded total delay cost is the smallest recorded; every earlier *)
(* option costs more, no later option of equal cost replaces it, and it is *)
(* the only option marked.                                                 *)
(***************************************************************************)
C22_FirstMinimumIsBest ==
    LET found == seq
        options == found.sequence_options
    IN  options # << >>
        => \E n \in DOMAIN options :
               /\ options[n].sequence = get_all_sequences(ready_activities)[n]
               /\ found.best_sequence = options[n].sequence
               /\ found.min_cost = options[n].total_delay_cost
               /\ \A m \in DOMAIN options :
                      /\ options[m].total_delay_cost >= options[n].total_delay_cost
                      /\ m < n => options[m].total_delay_cost
                                      > options[n].total_delay_cost
                      /\ options[m].is_best <=> m = n

\* two permutations share a positive minimum and the earlier one is the best
C22_Witness ==
    LET options == sequence_options
    IN  \E m, n \in DOMAIN options :
            /\ m < n
            /\ options[m].is_best
            /\ options[m].total_delay_cost > 0
            /\ options[n].total_delay_cost = options[m].total_delay_cost


\* the contention group of a ready activity: its parallel group if it has
\* one, else all ready activities
ContentionGroup(id) ==
    LET groups == parallel_groups
        own == {n \in DOMAIN groups : id \in Range(groups[n])}
    IN  IF own = {} THEN Range(ready_activities)
        ELSE Range(groups[CHOOSE n \in own : \A m \in own : n <= m])

(***************************************************************************)
(* C23.  In the ranked ready list of a POST, an activity that is not       *)
(* within its free float has delay_score = 35 * (its total delay cost per  *)
(* day / the largest total delay cost per day in its contention group),    *)
(* and 0 when that largest cost is 0.  The costs are those the activities  *)
(* hold when the scoring loop starts.                                      *)
(***************************************************************************)
C23_DelayScoreRelativeToGroup ==
    method = "POST"
    => LET before == recosted_activities
           scored == ScoredReady
           cost(id) == before[IndexOf(before, id)].total_delay_cost_per_day
       IN  \A n \in DOMAIN scored :
               LET a == scored[n]
                   max_cost == Max({cost(id) : id \in ContentionGroup(a.id)})
               IN  ~(a.free_float > 0 /\ a.current_delay <= a.free_float)
                   => a.delay_score
                          = IF max_cost = 0 THEN 0
                            ELSE round2((35000 * cost(a.id)) \div max_cost)


(***************************************************************************)
(* C25.  In every state a session reaches from the empty one, each entry   *)
(* of the stored ledger has a completion day <= the stored current day.    *)
(***************************************************************************)
C25_LedgerNotAfterCurrentDay ==
    \A id \in DOMAIN actual_completion_days :
        actual_completion_days[id] <= current_day

\* on day 2 the ledger holds an entry of day 1 and an entry written on day 2
C25_Witness ==
    /\ method = "POST"
    /\ current_day = 2
    /\ \E a, b \in DOMAIN actual_completion_days :
           /\ actual_completion_days[a] = 1
           /\ actual_completion_days[b] = 2


(***************************************************************************)
(* Requests on any stored session: any day, and any ledger, entries after  *)
(* the current day included.                                               *)
(***************************************************************************)
AnyLedgers == UNION {[done -> Days] : done \in SUBSET IdSet}

InitStored ==
    /\ csv \in SessionProjects
    /\ current_day \in Days
    /\ actual_completion_days \in AnyLedgers
    /\ method = "none"
    /\ overrides = NoOverrides
    /\ requests = << >>

NextStored == Get

StoredSpec == InitStored /\ [][NextStored]_vars

(***************************************************************************)
(* C26.  No activity is both in the list get_ready_activities returns and  *)
(* reported "Completed" or "Completed Today" by get_status, and an         *)
(* activity whose ledger entry is <= the current day is not in that list.  *)
(***************************************************************************)
C26_ReadyNotCompleted ==
    LET ready == Range(ready_activities)
    IN  \A id \in IdSet :
            /\ ~(/\ id \in ready
                 /\ get_status(id, actual_completion_days, current_day)
                        \in {"Completed", "Completed Today"})
            /\ (/\ id \in DOMAIN actual_completion_days
                /\ actual_completion_days[id] <= current_day)
               => id \notin ready

\* one activity is completed today and left out of the list, another has
\* an entry of a later day, is pending and is in the list
C26_Witness ==
    \E a, b \in DOMAIN actual_completion_days :
        /\ method = "GET"
        /\ actual_completion_days[a] = current_day
        /\ a \notin Range(ready_activities)
        /\ actual_completion_days[b] > current_day
        /\ get_status(b, actual_completion_days, current_day) = "Pending"
        /\ b \in Range(ready_activities)


(***************************************************************************)
(* C29.  A GET request leaves the stored completion ledger and the stored  *)
(* current day as they were, whatever the session holds.                   *)
(***************************************************************************)
C29_GetKeepsSession ==
    [][method' = "GET"
       => UNCHANGED << actual_completion_days, current_day >>]_vars

\* a GET has been answered on a session that holds a ledger and a later day
C29_Witness ==
    /\ method = "GET"
    /\ current_day > 1
    /\ actual_completion_days # << >>
    /\ ready_activities # << >>


(***************************************************************************)
(* C27.  The stored ledger is dependency-closed: every activity that has   *)
(* an entry has all its dependencies in the ledger, each completed on a    *)
(* day before its own.                                                     *)
(***************************************************************************)
C27_LedgerDependencyClosed ==
    \A i \in DOMAIN csv :
        csv[i].id \in DOMAIN actual_completion_days
        => \A dep \in csv[i].dependency_ids :
               /\ dep \in DOMAIN actual_completion_days
               /\ actual_completion_days[dep] < actual_completion_days[csv[i].id]


(***************************************************************************)
(* C28.  In the summary of a POST every activity has actual_cost >= 0 and  *)
(* delay_cost >= 0, and the actual duration used for an activity completed *)
(* by the current day is at least 1.                                       *)
(***************************************************************************)
C28_SummaryCostsNotNegative ==
    method = "POST"
    => LET rows == summary
       IN  \A i \in DOMAIN rows :
               /\ rows[i].actual_cost >= 0
               /\ rows[i].delay_cost >= 0
               /\ rows[i].status \in {"Completed", "Completed Today"}
                  => actual_duration(csv[i], actual_completion_days, current_day)
                         >= 1


(***************************************************************************)
(* C30.  Every score breakdown of the ranked ready list of a POST is       *)
(* within the fixed weights, in thousandths of a point: delay_score in     *)
(* 0..35, equipment_score in 0..25, manpower_score in 0..15,               *)
(* material_score in 0..10, critical_path_score one of 0, 10, 15, and      *)
(* total_score in 0..100.                                                  *)
(***************************************************************************)
C30_ScoresWithinWeights ==
    method = "POST"
    => LET scored == ScoredReady
       IN  \A n \in DOMAIN scored :
               /\ scored[n].delay_score \in 0..35000
               /\ scored[n].equipment_score \in 0..25000
               /\ scored[n].manpower_score \in 0..15000
               /\ scored[n].material_score \in 0..10000
               /\ scored[n].critical_path_score \in {0, 10000, 15000}
               /\ scored[n].total_score \in 0..100000


(***************************************************************************)
(* Requests on a large project: sixteen independent activities, one more   *)
(* than optimize_for_large_project keeps.  The first two rows vary in      *)
(* start_day and in the total_delay_cost_per_day column, the last row may  *)
(* have been completed.                                                    *)
(***************************************************************************)
LargeIds ==
    << "A1", "A2", "A3", "A4", "A5", "A6", "A7", "A8",
       "A9", "A10", "A11", "A12", "A13", "A14", "A15", "A16" >>

VariedIds == {"A1", "A2"}

DelayCosts == {10, 50}

LargeRows(start, cost) ==
    LET row == Rows([id \in IdSet |-> {}], [id \in IdSet |-> 1],
                    [id \in IdSet |-> 1])[1]
    IN  [i \in DOMAIN LargeIds |->
            LET id == LargeIds[i]
            IN  [row EXCEPT !.id = id,
                            !.start_day = IF id \in VariedIds THEN start[id] ELSE 1,
                            !.total_delay_cost_per_day =
                                IF id \in VariedIds THEN cost[id] ELSE 50]]

LargeProjects ==
    {LargeRows(start, cost) : start \in [VariedIds -> 1..MaxStartDay],
                              cost \in [VariedIds -> DelayCosts]}

InitLarge ==
    /\ csv \in LargeProjects
    /\ current_day \in Days
    /\ actual_completion_days \in
           {<< >>} \cup {("A16" :> day) : day \in 1..current_day}
    /\ method = "none"
    /\ overrides = NoOverrides
    /\ requests = << >>

NextLarge == Get

LargeSpec == InitLarge /\ [][NextLarge]_vars

(***************************************************************************)
(* C24.  The ready activities a request hands to the page are ordered by   *)
(* total_score, highest first, and two of them with the same total_score   *)
(* are in the order of their rows in the activity file.                    *)
(***************************************************************************)
C24_RankedByScoreThenFileOrder ==
    method \in {"GET", "POST"}
    => LET ranked == ranking
           scored == scored_activities
           score(id) == get(scored[IndexOf(scored, id)], "total_score", 0)
       IN  \A m, n \in DOMAIN ranked :
               m < n => \/ score(ranked[m]) > score(ranked[n])
                        \/ /\ score(ranked[m]) = score(ranked[n])
                           /\ IndexOf(csv, ranked[m]) < IndexOf(csv, ranked[n])

=============================================================================
